---- MODULE Spec2Model ----
(***************************************************************************)
(* Model of the task store of contexts/TaskContext.tsx (TaskProvider):     *)
(* category lists, soft delete with a 5000 ms undo window, restore,        *)
(* category deletion and the due-today query.                              *)
(*                                                                         *)
(* TaskProvider is a React function component.  Its two pieces of state    *)
(* are updated only through functional updaters, which React applies in    *)
(* the order they were queued, so categoryLists and deletedTasks below     *)
(* hold the state with every queued updater applied.  The handlers are     *)
(* closures of the last render: what they READ from the component scope    *)
(* is the value of that render.  restoreTask reads deletedTasks, kept here *)
(* in renderedDeleted until Render runs again; getTasksDueToday reads      *)
(* categoryLists and is an operator of the list it is given, which is the  *)
(* current one in every state with no update queued (batch = 0).           *)
(*                                                                         *)
(* deleteTask assigns its local variables inside the updater it hands to   *)
(* setCategoryLists and tests them right after the call.  React runs an    *)
(* updater inside the set-state call only when the component has no        *)
(* update queued (the eager-state path); otherwise the updater runs in the *)
(* next render, after deleteTask has taken its else branch.  batch counts  *)
(* the updates queued since the last render.                               *)
(*                                                                         *)
(* Spec is the store driven by callers that keep no state of their own.    *)
(* ScreenSpec puts HomeScreen on top of it: the snackbar with UNDO, whose   *)
(* auto-dismiss timer is the Snackbar component's, and the edit modal.      *)
(***************************************************************************)
EXTENDS Integers, Sequences, FiniteSets, TLC

\* ---------------------------------------------------------------- bounds
MaxIds    == 2        \* task ids handed out by the callers: 1..MaxIds
MaxCats   == 2        \* categories ever held at once
MaxTimers == 2        \* setTimeout handles handed out
MaxBatch  == 2        \* store updates queued between two renders
MaxTicks  == 2        \* clock steps taken
TickMs    == 2500     \* length of one clock step, ms
MaxLen    == 3        \* tasks due today in the store the sort is run on

\* ------------------------------------------------------ program constants
Delay == 5000         \* setTimeout(..., 5000)
SnackDuration == 5000 \* Snackbar: duration = 5000
DayMs == 86400000     \* one calendar day, the granularity of toDateString()

Ids      == 1..MaxIds
Names    == {"Work", "Home"}
Colors   == {"#FF9500"}
Icons    == {"briefcase"}
ClockStart == DayMs - 2 * TickMs        \* the clock starts late on day 0

NoTask == [id |-> 0, title |-> "", description |-> "", dueDate |-> 0,
           completed |-> FALSE, category |-> "", priority |-> "none",
           subtasks |-> <<>>]

VARIABLES
  categoryLists,    \* useState<CategoryList[]>: sequence of categories
  deletedTasks,     \* useState<Map<string, DeletedTask>>: id -> record
  renderedDeleted,  \* deletedTasks as seen by the closures of the last render
  batch,            \* state updates queued since the last render
  timers,           \* live setTimeout timers: handle -> [taskId, remaining]
  nextTimer,        \* next setTimeout handle
  resolved,         \* handle -> the promise of the deleteTask call that set it
  nextId,           \* next fresh task id (Date.now().toString())
  now,              \* the clock, ms
  ticks,            \* clock steps taken
  last,             \* the latest call since the last render, if it was a
                    \* toggleTaskCompletion, or a deleteTask or restoreTask
                    \* of a task the store held: [op, id, ret], ret the
                    \* promise deleteTask returned
  delAge,           \* id -> ms since deleteTask(id) removed it, -1 if it
                    \* never did or restoreTask(id) found a record since
  pendAge,          \* id -> ms since deleteTask(id) resolved false, -1 if it
                    \* never did or restoreTask(id) found a record since
  expired,          \* ids whose expiry callback has run
  removedByCat,     \* ids removed while active by deleteCategoryList
  orphaned,         \* ids with a record whose category deleteCategoryList
                    \* has removed since the record was made
  \* HomeScreen, the screen of the tasks due today
  snackbarVisible,  \* useState(false)
  deletedTaskId,    \* useState<string | null>(null), 0 for null
  deletedTaskTitle, \* useState<string>('')
  snackTimer,       \* ms left on the Snackbar's auto-dismiss timer, -1 if
                    \* none is set
  showEditModal,    \* useState(false)
  editingTask,      \* useState<Task | null>(null), NoTask for null
  thrown,           \* the context functions whose call threw a TypeError
  screenTasks       \* tasks, useState<Task[]>([]): the list on the screen

hist == <<delAge, pendAge, expired, removedByCat, orphaned>>

ui == <<snackbarVisible, deletedTaskId, deletedTaskTitle, snackTimer,
        showEditModal, editingTask, thrown, screenTasks>>

vars == <<categoryLists, deletedTasks, renderedDeleted, batch,
          timers, nextTimer, resolved, nextId, now, ticks, last,
          delAge, pendAge, expired, removedByCat, orphaned,
          snackbarVisible, deletedTaskId, deletedTaskTitle, snackTimer,
          showEditModal, editingTask, thrown, screenTasks>>

\* ------------------------------------------------------------- helpers
Max(S) == CHOOSE x \in S : \A y \in S : y <= x

\* Map.prototype.delete / Map.prototype.set on a copy of the map
MapDelete(m, k) == [x \in (DOMAIN m) \ {k} |-> m[x]]

MapSet(m, k, v) == [x \in (DOMAIN m) \cup {k} |-> IF x = k THEN v ELSE m[x]]

\* tasks.filter(task => task.id !== taskId)
FilterOut(tasks, id) == SelectSeq(tasks, LAMBDA t : t.id # id)

\* tasks.findIndex(task => task.id === taskId), 0 for -1
FindIndex(tasks, id) ==
  IF \E i \in 1..Len(tasks) : tasks[i].id = id
  THEN CHOOSE i \in 1..Len(tasks) :
         /\ tasks[i].id = id
         /\ \A j \in 1..(i - 1) : tasks[j].id # id
  ELSE 0

\* the categories (positions) whose task list holds id
Holders(lists, id) ==
  {c \in 1..Len(lists) : FindIndex(lists[c].tasks, id) # 0}

IsActive(lists, id) == Holders(lists, id) # {}

\* how many times id occurs in the task lists
Occurrences(lists, id) ==
  Cardinality(UNION {{<<c, i>> : i \in {j \in 1..Len(lists[c].tasks) :
                                          lists[c].tasks[j].id = id}} :
                     c \in 1..Len(lists)})

CategoryNames(lists) == {lists[c].category : c \in 1..Len(lists)}

\* categoryLists.flatMap(categoryList => categoryList.tasks)
RECURSIVE FlatMapTasks(_)
FlatMapTasks(lists) ==
  IF lists = <<>> THEN <<>>
  ELSE Head(lists).tasks \o FlatMapTasks(Tail(lists))

\* Date.prototype.toDateString(): the calendar day of an instant
ToDateString(d) == d \div DayMs

\* ------------------------------------------------ the updaters of the store
\* an addCategoryList that replaces the category of the same name
AppendCategory_Replace(lists, cl) ==
  Append(SelectSeq(lists, LAMBDA x : x.category # cl.category), cl)

\* addCategoryList: prev => [...prev, categoryList]
AppendCategory(lists, cl) == Append(lists, cl)

\* an append that puts the task at the head of the list
AppendToCategory_Front(lists, name, task) ==
  [c \in 1..Len(lists) |->
     IF lists[c].category = name
     THEN [lists[c] EXCEPT !.tasks = <<task>> \o @]
     ELSE lists[c]]

\* addTask / restoreTask: append the task to every category of that name
AppendToCategory(lists, name, task) ==
  [c \in 1..Len(lists) |->
     IF lists[c].category = name
     THEN [lists[c] EXCEPT !.tasks = Append(@, task)]
     ELSE lists[c]]

\* a toggle that marks the task completed instead of flipping the flag
ToggleIn_SetTrue(lists, id) ==
  [c \in 1..Len(lists) |->
     [lists[c] EXCEPT !.tasks =
        [i \in 1..Len(@) |->
           IF @[i].id = id THEN [@[i] EXCEPT !.completed = TRUE] ELSE @[i]]]]

\* a toggle whose test is inverted: it flips every task but the one named
ToggleIn_Others(lists, id) ==
  [c \in 1..Len(lists) |->
     [lists[c] EXCEPT !.tasks =
        [i \in 1..Len(@) |->
           IF @[i].id # id THEN [@[i] EXCEPT !.completed = ~@] ELSE @[i]]]]

\* toggleTaskCompletion: flip completed on every task with that id
ToggleIn(lists, id) ==
  [c \in 1..Len(lists) |->
     [lists[c] EXCEPT !.tasks =
        [i \in 1..Len(@) |->
           IF @[i].id = id THEN [@[i] EXCEPT !.completed = ~@] ELSE @[i]]]]

\* deleteTask: the new categoryLists returned by the updater
RemoveTask(lists, id) ==
  [c \in 1..Len(lists) |->
     IF FindIndex(lists[c].tasks, id) # 0
     THEN [lists[c] EXCEPT !.tasks = FilterOut(@, id)]
     ELSE lists[c]]

\* deleteTask: `let deletedTask = null; let categoryName = ''`
NotCaptured == [found |-> FALSE, task |-> NoTask, categoryName |-> ""]

\* a deleteTask that takes its then-branch whether or not a task was found
Capture_Always(lists, id) ==
  IF Holders(lists, id) = {}
  THEN [NotCaptured EXCEPT !.found = TRUE]
  ELSE LET c == Max(Holders(lists, id))
       IN [found |-> TRUE,
           task |-> lists[c].tasks[FindIndex(lists[c].tasks, id)],
           categoryName |-> lists[c].category]

\* deleteTask: what the updater leaves in deletedTask and categoryName, which
\* every matching category overwrites in turn
Capture(lists, id) ==
  IF Holders(lists, id) = {}
  THEN NotCaptured
  ELSE LET c == Max(Holders(lists, id))
       IN [found |-> TRUE,
           task |-> lists[c].tasks[FindIndex(lists[c].tasks, id)],
           categoryName |-> lists[c].category]

\* a filter that keeps the named category and drops the others
FilterCategory_Inverted(lists, name) ==
  SelectSeq(lists, LAMBDA cl : cl.category = name)

\* deleteCategoryList: prev.filter(categoryList => categoryList.category !== categoryName)
FilterCategory(lists, name) == SelectSeq(lists, LAMBDA cl : cl.category # name)

\* an expiry callback that returns the map as it found it
ExpireRecord_Keep(dt, id) == dt

\* an expiry callback that deletes under the timer handle, not the task id
ExpireRecord_ByHandle(dt, id) ==
  IF id \in DOMAIN dt THEN MapDelete(dt, dt[id].timeoutId + MaxIds) ELSE dt

\* the expiry callback: newMap.delete(taskId)
ExpireRecord(dt, id) == MapDelete(dt, id)

\* a restoreTask that leaves the timer running
ClearTimeout_Skipped(ts, h) == ts

\* clearTimeout(timeoutId): no effect on a handle that is not live
ClearTimeout(ts, h) == [x \in (DOMAIN ts) \ {h} |-> ts[x]]

\* resolve(value) on a promise: only the first call settles it
Resolve(p, v) == IF p.settled THEN p ELSE [settled |-> TRUE, value |-> v]

Unsettled == [settled |-> FALSE, value |-> FALSE]

\* any call or callback other than deleteTask, restoreTask and
\* toggleTaskCompletion
Other == [op |-> "other", id |-> 0, ret |-> Unsettled]

\* getTasksDueToday() of a render whose categoryLists is lists, called when
\* the clock reads today
GetTasksDueToday(lists, today) ==
  SelectSeq(FlatMapTasks(lists),
            LAMBDA t : ToDateString(t.dueDate) = ToDateString(today))

\* the ids of a list of tasks
IdsOf(tasks) == {tasks[i].id : i \in 1..Len(tasks)}

\* a promise after resolve(false)
ResolvedFalse == [settled |-> TRUE, value |-> FALSE]

\* a state update was queued: React will render again
Queued == IF batch < MaxBatch THEN batch + 1 ELSE batch

\* the ages kept for the timing properties stop counting at Delay
AgeAfter(a) ==
  IF a < 0 THEN a ELSE IF a + TickMs < Delay THEN a + TickMs ELSE Delay

\* ------------------------------------------------------------ the inputs
NewCategories ==
  [category : Names, tasks : {<<>>}, color : Colors, icon : Icons]

\* a task due late on day 0 for list Work, one due at the start of day 1 for
\* list Home
NewTasks(id) ==
  {[id |-> id, title |-> "Review", description |-> "", dueDate |-> DayMs - 1,
    completed |-> FALSE, category |-> "Work", priority |-> "none",
    subtasks |-> <<>>],
   [id |-> id, title |-> "Call", description |-> "", dueDate |-> DayMs,
    completed |-> FALSE, category |-> "Home", priority |-> "!!!",
    subtasks |-> <<>>]}

\* ------------------------------------------------------------------ Init
Init ==
  /\ categoryLists = <<>>
  /\ deletedTasks = <<>>
  /\ renderedDeleted = <<>>
  /\ batch = 0
  /\ timers = <<>>
  /\ nextTimer = 1
  /\ resolved = [h \in 1..MaxTimers |-> Unsettled]
  /\ nextId = 1
  /\ now = ClockStart
  /\ ticks = 0
  /\ last = Other
  /\ delAge = [id \in Ids |-> -1]
  /\ pendAge = [id \in Ids |-> -1]
  /\ expired = {}
  /\ removedByCat = {}
  /\ orphaned = {}
  /\ snackbarVisible = FALSE
  /\ deletedTaskId = 0
  /\ deletedTaskTitle = ""
  /\ snackTimer = -1
  /\ showEditModal = FALSE
  /\ editingTask = NoTask
  /\ thrown = {}
  /\ screenTasks = <<>>

\* --------------------------------------------------------------- actions
AddCategoryList(cl) ==
  /\ batch = 0
  /\ Len(categoryLists) < MaxCats
  /\ categoryLists' = AppendCategory(categoryLists, cl)
  /\ last' = Other
  /\ batch' = Queued
  /\ UNCHANGED <<deletedTasks, renderedDeleted, timers,
                 nextTimer, resolved, nextId, now, ticks, hist, ui>>

AddTask(task) ==
  /\ batch = 0
  /\ task.id = nextId
  /\ nextId' = nextId + 1
  /\ categoryLists' = AppendToCategory(categoryLists, task.category, task)
  /\ last' = Other
  /\ batch' = Queued
  /\ UNCHANGED <<deletedTasks, renderedDeleted, timers,
                 nextTimer, resolved, now, ticks, hist, ui>>

ToggleTaskCompletion(id) ==
  /\ batch = 0
  /\ categoryLists' = ToggleIn(categoryLists, id)
  /\ last' = [op |-> "toggleTaskCompletion", id |-> id, ret |-> Unsettled]
  /\ batch' = Queued
  /\ UNCHANGED <<deletedTasks, renderedDeleted, timers,
                 nextTimer, resolved, nextId, now, ticks, hist, ui>>

\* deleteTask(taskId).  The updater of setCategoryLists has run by the time
\* `if (deletedTask)` is evaluated only when no update was queued (batch = 0).
DeleteTaskCall(id) ==
  LET cap == Capture(categoryLists, id)
      deletedTask == IF batch = 0 THEN cap ELSE NotCaptured
  IN /\ batch < MaxBatch
     /\ deletedTask.found => nextTimer <= MaxTimers
     /\ categoryLists' = RemoveTask(categoryLists, id)
     /\ IF deletedTask.found
        THEN /\ timers' = MapSet(timers, nextTimer,
                                 [taskId |-> id, remaining |-> Delay])
             /\ nextTimer' = nextTimer + 1
             /\ deletedTasks' =
                  MapSet(deletedTasks, id,
                         [task |-> deletedTask.task,
                          categoryName |-> deletedTask.categoryName,
                          timeoutId |-> nextTimer])
             /\ resolved' = [resolved EXCEPT ![nextTimer] = Resolve(@, FALSE)]
             /\ pendAge' = [pendAge EXCEPT ![id] = 0]
        ELSE UNCHANGED <<timers, nextTimer, deletedTasks, resolved, pendAge>>
     /\ delAge' = IF cap.found THEN [delAge EXCEPT ![id] = 0] ELSE delAge
     /\ orphaned' = IF deletedTask.found THEN orphaned \ {id} ELSE orphaned
     /\ batch' = Queued
     /\ last' = IF cap.found \/ id \in DOMAIN deletedTasks
                THEN [op |-> "deleteTask", id |-> id,
                      ret |-> Resolve(Unsettled, ~deletedTask.found)]
                ELSE Other
     /\ UNCHANGED <<renderedDeleted, nextId, now, ticks,
                    expired, removedByCat>>

\* deleteTask called by a caller that keeps no state of its own
DeleteTask(id) == DeleteTaskCall(id) /\ UNCHANGED ui

\* restoreTask(taskId): the record is looked up in the deletedTasks of the
\* render this closure belongs to
RestoreTaskCall(id) ==
  /\ id \in DOMAIN renderedDeleted => batch < MaxBatch
  /\ IF id \in DOMAIN renderedDeleted
     THEN LET deletedTaskData == renderedDeleted[id]
          IN /\ timers' = ClearTimeout(timers, deletedTaskData.timeoutId)
             /\ categoryLists' =
                  AppendToCategory(categoryLists, deletedTaskData.categoryName,
                                   deletedTaskData.task)
             /\ deletedTasks' = MapDelete(deletedTasks, id)
             /\ batch' = Queued
             /\ delAge' = [delAge EXCEPT ![id] = -1]
             /\ pendAge' = [pendAge EXCEPT ![id] = -1]
             /\ orphaned' = orphaned \ {id}
             /\ last' = [op |-> "restoreTask", id |-> id, ret |-> Unsettled]
     ELSE /\ last' = IF id \in DOMAIN deletedTasks
                      THEN [op |-> "restoreTask", id |-> id, ret |-> Unsettled]
                      ELSE Other
          /\ UNCHANGED <<timers, categoryLists, deletedTasks, batch, delAge,
                         pendAge, orphaned>>
  /\ UNCHANGED <<renderedDeleted, nextTimer, resolved, nextId, now, ticks,
                 expired, removedByCat>>

\* restoreTask called by a caller that keeps no state of its own
RestoreTask(id) == RestoreTaskCall(id) /\ UNCHANGED ui

\* deleteCategoryList(categoryName); it may share a batch with a deleteTask
\* that came just before it
DeleteCategoryList(name) ==
  /\ batch < MaxBatch
  /\ categoryLists' = FilterCategory(categoryLists, name)
  /\ removedByCat' = removedByCat \cup
       {id \in Ids : \E c \in Holders(categoryLists, id) :
                        categoryLists[c].category = name}
  /\ orphaned' = orphaned \cup
       {id \in DOMAIN deletedTasks :
          /\ deletedTasks[id].categoryName = name
          /\ name \in CategoryNames(categoryLists)}
  /\ last' = Other
  /\ batch' = Queued
  /\ UNCHANGED <<deletedTasks, renderedDeleted, timers,
                 nextTimer, resolved, nextId, now, ticks, delAge,
                 pendAge, expired, ui>>

\* the setTimeout callback of deleteTask, once its 5000 ms have run out
Expire(h) ==
  /\ h \in DOMAIN timers
  /\ timers[h].remaining = 0
  /\ deletedTasks' = ExpireRecord(deletedTasks, timers[h].taskId)
  /\ resolved' = [resolved EXCEPT ![h] = Resolve(@, TRUE)]
  /\ timers' = MapDelete(timers, h)
  /\ expired' = expired \cup {timers[h].taskId}
  /\ orphaned' = orphaned \ {timers[h].taskId}
  /\ batch' = Queued
  /\ last' = Other
  /\ UNCHANGED <<categoryLists, renderedDeleted, nextTimer,
                 nextId, now, ticks, delAge, pendAge, removedByCat, ui>>

\* React renders TaskProvider again: the handlers are recreated over the
\* current state
RenderProvider ==
  /\ batch > 0
  /\ renderedDeleted' = deletedTasks
  /\ batch' = 0
  /\ last' = Other
  /\ UNCHANGED <<categoryLists, deletedTasks, timers, nextTimer, resolved,
                 nextId, now, ticks, hist>>

\* the render, with no screen mounted that keeps state
Render == RenderProvider /\ UNCHANGED ui

\* TickMs pass.  A queued render and a timer that is due run before that.
Elapse ==
  /\ batch = 0
  /\ ticks < MaxTicks
  /\ \A h \in DOMAIN timers : timers[h].remaining > 0
  /\ ticks' = ticks + 1
  /\ now' = now + TickMs
  /\ timers' = [h \in DOMAIN timers |->
                  [timers[h] EXCEPT !.remaining =
                     IF @ > TickMs THEN @ - TickMs ELSE 0]]
  /\ delAge' = [id \in Ids |-> AgeAfter(delAge[id])]
  /\ pendAge' = [id \in Ids |-> AgeAfter(pendAge[id])]
  /\ last' = Other
  /\ UNCHANGED <<categoryLists, deletedTasks, renderedDeleted,
                 batch, nextTimer, resolved, nextId, expired,
                 removedByCat, orphaned>>

\* TickMs pass with no screen timer running
Tick == Elapse /\ UNCHANGED ui

Next ==
  \/ \E cl \in NewCategories : AddCategoryList(cl)
  \/ \E id \in Ids : \E task \in NewTasks(id) : AddTask(task)
  \/ \E id \in Ids : ToggleTaskCompletion(id)
  \/ \E id \in Ids : DeleteTask(id)
  \/ \E id \in Ids : RestoreTask(id)
  \/ \E name \in Names : DeleteCategoryList(name)
  \/ \E h \in 1..MaxTimers : Expire(h)
  \/ Render
  \/ Tick

Spec == Init /\ [][Next]_vars

TypeOK ==
  /\ batch \in 0..MaxBatch
  /\ DOMAIN timers \subseteq 1..MaxTimers
  /\ DOMAIN deletedTasks \subseteq Ids

\* ------------------------------------------------------------ HomeScreen
\* the keys of the context value TaskProvider hands to its consumers
ContextValue ==
  {"categoryLists", "addCategoryList", "addTask", "toggleTaskCompletion",
   "deleteTask", "restoreTask", "getTasksDueToday", "deleteCategoryList"}

\* the text typed into the title field of the edit modal
Titles == {"Edited"}

\* the effect of HomeScreen that fills its tasks: priorityOrder, 999 for a task
\* with no priority
PriorityOrder(priority) ==
  CASE priority = "!!!" -> 0
    [] priority = "!!" -> 1
    [] priority = "!" -> 2
    [] OTHER -> 999

\* a comparator that leaves the completion status out
CompareTasks_PriorityOnly(a, b) ==
  PriorityOrder(a.priority) - PriorityOrder(b.priority)

\* the comparator handed to sort
CompareTasks(a, b) ==
  IF a.completed # b.completed
  THEN IF a.completed THEN 1 ELSE -1
  ELSE PriorityOrder(a.priority) - PriorityOrder(b.priority)

\* x put behind the elements of a sorted list that do not come after it
InsertSorted(sorted, x) ==
  LET k == Cardinality({i \in 1..Len(sorted) : CompareTasks(sorted[i], x) <= 0})
  IN  SubSeq(sorted, 1, k) \o <<x>> \o SubSeq(sorted, k + 1, Len(sorted))

\* Array.prototype.sort with that comparator: a stable sort
RECURSIVE SortTasks(_)
SortTasks(ts) ==
  IF ts = <<>> THEN <<>>
  ELSE InsertSorted(SortTasks(SubSeq(ts, 1, Len(ts) - 1)), ts[Len(ts)])

\* Snackbar's effect, run after every render of HomeScreen (its dependency
\* handleDismiss is a new function whenever onDismiss is): the timer of the
\* render before is cleared and, when visible, a new one is set
SnackEffect(visible) == IF visible THEN SnackDuration ELSE -1

\* the task with that id as the screen shows it
Shown(id) == Capture(categoryLists, id).task

\* handleDeleteTask(taskId, taskTitle) on a task of the screen: await
\* deleteTask, then show the snackbar when the promise resolved to false
HandleDeleteTask(id) ==
  /\ batch = 0
  /\ ~showEditModal
  /\ id \in IdsOf(GetTasksDueToday(categoryLists, now))
  /\ DeleteTaskCall(id)
  /\ IF ~last'.ret.value
     THEN /\ deletedTaskId' = id
          /\ deletedTaskTitle' = Shown(id).title
          /\ snackbarVisible' = TRUE
          /\ snackTimer' = SnackEffect(TRUE)
     ELSE UNCHANGED <<deletedTaskId, deletedTaskTitle, snackbarVisible,
                      snackTimer>>
  /\ UNCHANGED <<showEditModal, editingTask, thrown,
                 screenTasks>>

\* an UNDO that restores the task deleted first of those pending, not the
\* one in the slot
HandleUndoDelete_Oldest ==
  LET oldest == IF DOMAIN deletedTasks = {} THEN deletedTaskId
                ELSE CHOOSE id \in DOMAIN deletedTasks :
                       \A o \in DOMAIN deletedTasks :
                         deletedTasks[id].timeoutId <= deletedTasks[o].timeoutId
  IN /\ batch = 0
     /\ ~showEditModal
     /\ snackbarVisible
     /\ deletedTaskId # 0
     /\ RestoreTaskCall(oldest)
     /\ snackbarVisible' = FALSE
     /\ deletedTaskId' = 0
     /\ deletedTaskTitle' = ""
     /\ snackTimer' = SnackEffect(FALSE)
     /\ UNCHANGED <<showEditModal, editingTask, thrown,
                    screenTasks>>

\* handleUndoDelete, the UNDO button of the snackbar on the screen
HandleUndoDelete ==
  /\ batch = 0
  /\ ~showEditModal
  /\ snackbarVisible
  /\ deletedTaskId # 0
  /\ RestoreTaskCall(deletedTaskId)
  /\ snackbarVisible' = FALSE
  /\ deletedTaskId' = 0
  /\ deletedTaskTitle' = ""
  /\ snackTimer' = SnackEffect(FALSE)
  /\ UNCHANGED <<showEditModal, editingTask, thrown,
                 screenTasks>>

\* the Snackbar's auto-dismiss timer runs out: handleDismiss, whose fade-out
\* ends in onDismiss = handleSnackbarDismiss.  A store timer that is due was
\* set before this one and runs first.
SnackbarTimeout ==
  /\ snackTimer = 0
  /\ \A h \in DOMAIN timers : timers[h].remaining > 0
  /\ snackbarVisible' = FALSE
  /\ deletedTaskId' = 0
  /\ deletedTaskTitle' = ""
  /\ snackTimer' = SnackEffect(FALSE)
  /\ last' = Other
  /\ UNCHANGED <<categoryLists, deletedTasks, renderedDeleted, batch, timers,
                 nextTimer, resolved, nextId, now, ticks, hist,
                 showEditModal, editingTask, thrown,
                 screenTasks>>

\* handleEditTask(task): a tap on a task of the screen
HandleEditTask(id) ==
  /\ batch = 0
  /\ ~showEditModal
  /\ id \in IdsOf(GetTasksDueToday(categoryLists, now))
  /\ editingTask' = Shown(id)
  /\ showEditModal' = TRUE
  /\ snackTimer' = SnackEffect(snackbarVisible)
  /\ last' = Other
  /\ UNCHANGED <<categoryLists, deletedTasks, renderedDeleted, batch, timers,
                 nextTimer, resolved, nextId, now, ticks, hist,
                 snackbarVisible, deletedTaskId, deletedTaskTitle, thrown,
                 screenTasks>>

\* onChangeText of the title field: setEditingTask({...editingTask, title})
ChangeTitle(text) ==
  /\ showEditModal
  /\ editingTask # NoTask
  /\ editingTask.title # text
  /\ editingTask' = [editingTask EXCEPT !.title = text]
  /\ snackTimer' = SnackEffect(snackbarVisible)
  /\ last' = Other
  /\ UNCHANGED <<categoryLists, deletedTasks, renderedDeleted, batch, timers,
                 nextTimer, resolved, nextId, now, ticks, hist,
                 snackbarVisible, deletedTaskId, deletedTaskTitle,
                 showEditModal, thrown,
                 screenTasks>>

\* handleSaveEdit: the context value has no updateTask, so the call is a call
\* of undefined and throws a TypeError; the two set-state calls after it are
\* not reached
HandleSaveEdit ==
  /\ showEditModal
  /\ editingTask # NoTask
  /\ "updateTask" \notin ContextValue
  /\ thrown' = thrown \cup {"updateTask"}
  /\ last' = Other
  /\ UNCHANGED <<categoryLists, deletedTasks, renderedDeleted, batch, timers,
                 nextTimer, resolved, nextId, now, ticks, hist,
                 snackbarVisible, deletedTaskId, deletedTaskTitle, snackTimer,
                 showEditModal, editingTask,
                 screenTasks>>

\* handleCancelEdit
HandleCancelEdit ==
  /\ showEditModal
  /\ showEditModal' = FALSE
  /\ editingTask' = NoTask
  /\ snackTimer' = SnackEffect(snackbarVisible)
  /\ last' = Other
  /\ UNCHANGED <<categoryLists, deletedTasks, renderedDeleted, batch, timers,
                 nextTimer, resolved, nextId, now, ticks, hist,
                 snackbarVisible, deletedTaskId, deletedTaskTitle, thrown,
                 screenTasks>>

\* TaskProvider renders, and HomeScreen, a consumer of its context, with it
RenderScreen ==
  /\ RenderProvider
  /\ snackTimer' = SnackEffect(snackbarVisible)
  /\ screenTasks' = SortTasks(GetTasksDueToday(categoryLists, now))
  /\ UNCHANGED <<snackbarVisible, deletedTaskId, deletedTaskTitle,
                 showEditModal, editingTask, thrown>>

\* TickMs pass on the screen
ElapseScreen ==
  /\ Elapse
  /\ snackTimer # 0
  /\ snackTimer' = IF snackTimer > TickMs THEN snackTimer - TickMs
                   ELSE IF snackTimer < 0 THEN snackTimer ELSE 0
  /\ UNCHANGED <<snackbarVisible, deletedTaskId, deletedTaskTitle,
                 showEditModal, editingTask, thrown,
                 screenTasks>>

\* the home screen over a store that the lists screen fills
ScreenNext ==
  \/ \E cl \in NewCategories : AddCategoryList(cl)
  \/ \E id \in Ids : \E task \in NewTasks(id) : AddTask(task)
  \/ \E id \in Ids : ToggleTaskCompletion(id)
  \/ \E id \in Ids : HandleDeleteTask(id)
  \/ HandleUndoDelete
  \/ SnackbarTimeout
  \/ \E h \in 1..MaxTimers : Expire(h)
  \/ \E id \in Ids : HandleEditTask(id)
  \/ \E text \in Titles : ChangeTitle(text)
  \/ HandleSaveEdit
  \/ HandleCancelEdit
  \/ RenderScreen
  \/ ElapseScreen

ScreenSpec == Init /\ [][ScreenNext]_vars

\* ------------------------------------------- the sort of the home screen
Priorities == {"!!!", "!!", "!", "none"}

\* the task lists of a store with one category: tasks 1..n, all due today,
\* each completed or not and of any priority
StoredTasks ==
  UNION {{[i \in 1..n |->
             [id |-> i, title |-> "Review", description |-> "",
              dueDate |-> DayMs - 1, completed |-> f[i][1],
              category |-> "Work", priority |-> f[i][2], subtasks |-> <<>>]]
            : f \in [1..n -> BOOLEAN \X Priorities]}
         : n \in 0..MaxLen}

\* HomeScreen mounted over a store that holds such a list
SortInit ==
  /\ \E ts \in StoredTasks :
       /\ categoryLists = <<[category |-> "Work", tasks |-> ts,
                             color |-> "#FF9500", icon |-> "briefcase"]>>
       /\ nextId = Len(ts) + 1
  /\ deletedTasks = <<>>
  /\ renderedDeleted = <<>>
  /\ batch = 0
  /\ timers = <<>>
  /\ nextTimer = 1
  /\ resolved = [h \in 1..MaxTimers |-> Unsettled]
  /\ now = ClockStart
  /\ ticks = 0
  /\ last = Other
  /\ delAge = [id \in Ids |-> -1]
  /\ pendAge = [id \in Ids |-> -1]
  /\ expired = {}
  /\ removedByCat = {}
  /\ orphaned = {}
  /\ snackbarVisible = FALSE
  /\ deletedTaskId = 0
  /\ deletedTaskTitle = ""
  /\ snackTimer = -1
  /\ showEditModal = FALSE
  /\ editingTask = NoTask
  /\ thrown = {}
  /\ screenTasks = <<>>

\* the effect of HomeScreen on [categoryLists, getTasksDueToday]:
\* getTasksDueToday(), sort, setTasks
SortEffect ==
  /\ batch = 0
  /\ screenTasks' = SortTasks(GetTasksDueToday(categoryLists, now))
  /\ last' = Other
  /\ UNCHANGED <<categoryLists, deletedTasks, renderedDeleted, batch, timers,
                 nextTimer, resolved, nextId, now, ticks, hist,
                 snackbarVisible, deletedTaskId, deletedTaskTitle, snackTimer,
                 showEditModal, editingTask, thrown>>

\* handleToggleTaskCompletion(taskId) on a task of the list
HandleToggleTaskCompletion(id) ==
  /\ id \in IdsOf(screenTasks)
  /\ ToggleTaskCompletion(id)

SortNext ==
  \/ SortEffect
  \/ \E id \in 1..MaxLen : HandleToggleTaskCompletion(id)
  \/ Render

SortSpec == SortInit /\ [][SortNext]_vars

\* ------------------------------------------------- the store over all time
\* TickMs pass on the running timers.  The wall clock is not kept here, so
\* that a behaviour may last any length of time.
TimePasses ==
  /\ batch = 0
  /\ timers # <<>>
  /\ \A h \in DOMAIN timers : timers[h].remaining > 0
  /\ timers' = [h \in DOMAIN timers |->
                  [timers[h] EXCEPT !.remaining =
                     IF @ > TickMs THEN @ - TickMs ELSE 0]]
  /\ delAge' = [id \in Ids |-> AgeAfter(delAge[id])]
  /\ pendAge' = [id \in Ids |-> AgeAfter(pendAge[id])]
  /\ last' = Other
  /\ UNCHANGED <<categoryLists, deletedTasks, renderedDeleted,
                 batch, nextTimer, resolved, nextId, now, ticks, expired,
                 removedByCat, orphaned, ui>>

LiveNext ==
  \/ \E cl \in NewCategories : AddCategoryList(cl)
  \/ \E id \in Ids : \E task \in NewTasks(id) : AddTask(task)
  \/ \E id \in Ids : ToggleTaskCompletion(id)
  \/ \E id \in Ids : DeleteTask(id)
  \/ \E id \in Ids : RestoreTask(id)
  \/ \E name \in Names : DeleteCategoryList(name)
  \/ \E h \in 1..MaxTimers : Expire(h)
  \/ Render
  \/ TimePasses

\* React renders once an update is queued and a due timer callback is run;
\* no sequence of calls keeps time from passing
LiveSpec ==
  /\ Init
  /\ [][LiveNext]_vars
  /\ WF_vars(Render)
  /\ \A h \in 1..MaxTimers : WF_vars(Expire(h))
  /\ SF_vars(TimePasses)

\* ------------------------------------------ the store with a repeated id
\* a category that holds the task of that category made with id 1
Holding(name) ==
  [category |-> name,
   tasks |-> <<CHOOSE t \in NewTasks(1) : t.category = name>>,
   color |-> "#FF9500", icon |-> "briefcase"]

\* createNewTask has made two tasks within one millisecond, one for each
\* list: both got the id Date.now().toString() gave, and the provider has
\* rendered since
DupInit ==
  /\ \E first \in Names : \E second \in Names \ {first} :
       categoryLists = <<Holding(first), Holding(second)>>
  /\ nextId = 2
  /\ deletedTasks = <<>>
  /\ renderedDeleted = <<>>
  /\ batch = 0
  /\ timers = <<>>
  /\ nextTimer = 1
  /\ resolved = [h \in 1..MaxTimers |-> Unsettled]
  /\ now = ClockStart
  /\ ticks = 0
  /\ last = Other
  /\ delAge = [id \in Ids |-> -1]
  /\ pendAge = [id \in Ids |-> -1]
  /\ expired = {}
  /\ removedByCat = {}
  /\ orphaned = {}
  /\ snackbarVisible = FALSE
  /\ deletedTaskId = 0
  /\ deletedTaskTitle = ""
  /\ snackTimer = -1
  /\ showEditModal = FALSE
  /\ editingTask = NoTask
  /\ thrown = {}
  /\ screenTasks = <<>>

DupSpec == DupInit /\ [][Next]_vars

\* ------------------------------------------------------------ the claims
\* no expiry callback for id is due and not yet run
NotDue(id) ==
  \A h \in DOMAIN timers : timers[h].taskId = id => timers[h].remaining > 0

\* C1: once 5000 ms have passed since deleteTask removed an active task, with
\* no restoreTask of it since and its expiry callback not left waiting, the
\* task is in no category's list, has no PendingDeletion record and is not in
\* the due-today list, whatever was done to other ids meanwhile.
C1_DeletedAndExpiredIsAbsent ==
  \A id \in Ids :
    (delAge[id] >= Delay /\ NotDue(id))
      => /\ ~IsActive(categoryLists, id)
         /\ id \notin DOMAIN deletedTasks
         /\ batch = 0 => id \notin IdsOf(GetTasksDueToday(categoryLists, now))

\* a soft-deleted task whose 5000 ms ran out and whose expiry callback ran,
\* while the other task is still in a list
C1_Witness ==
  \E id \in Ids :
    /\ delAge[id] >= Delay
    /\ id \in expired
    /\ NotDue(id)
    /\ \E other \in Ids \ {id} : IsActive(categoryLists, other)

\* C7: deleteTask(id) on an id that has a PendingDeletion record and is in no
\* active list resolves true (AlreadyGone), leaves the category lists and the
\* record as they were, creates no timer and leaves the running timer's
\* remaining time alone.
C7_DeleteOfPendingIsNotFound ==
  [][\A id \in Ids :
       (/\ DeleteTask(id)
        /\ id \in DOMAIN deletedTasks
        /\ ~IsActive(categoryLists, id))
         => /\ last'.op = "deleteTask" /\ last'.id = id
            /\ last'.ret = [settled |-> TRUE, value |-> TRUE]
            /\ categoryLists' = categoryLists
            /\ deletedTasks' = deletedTasks
            /\ timers' = timers
            /\ nextTimer' = nextTimer
            /\ pendAge' = pendAge]_vars

\* deleteTask was just called on a task that is pending deletion, with a
\* handle still free for a timer, and resolved true
C7_Witness ==
  /\ last.op = "deleteTask"
  /\ last.ret = [settled |-> TRUE, value |-> TRUE]
  /\ last.id \in DOMAIN deletedTasks
  /\ ~IsActive(categoryLists, last.id)
  /\ deletedTasks[last.id].timeoutId \in DOMAIN timers
  /\ nextTimer <= MaxTimers

\* C8: live expiry timers and PendingDeletion records correspond one to one:
\* every record stores the handle of a live timer set for its id, and every
\* live timer is the one stored in the record of its id.
C8_TimersMatchRecords ==
  /\ \A id \in DOMAIN deletedTasks :
       /\ deletedTasks[id].timeoutId \in DOMAIN timers
       /\ timers[deletedTasks[id].timeoutId].taskId = id
  /\ \A h \in DOMAIN timers :
       /\ timers[h].taskId \in DOMAIN deletedTasks
       /\ deletedTasks[timers[h].taskId].timeoutId = h

\* a record whose timer is the second one set, the first having been
\* cancelled by restoreTask rather than fired
C8_Witness ==
  /\ expired = {}
  /\ 1 \notin DOMAIN timers
  /\ \E id \in DOMAIN deletedTasks :
       deletedTasks[id].timeoutId = 2 /\ 2 \in DOMAIN timers

\* C10: deleteCategoryList(name) removes every category of that name with the
\* tasks then active in it and creates no PendingDeletion record for them;
\* the other categories stay as they were, in order; every PendingDeletion
\* record, those of that category included, and every timer is untouched.
C10_DeleteCategoryFrame ==
  [][\A name \in Names :
       DeleteCategoryList(name)
         => /\ name \notin CategoryNames(categoryLists')
            /\ \E keep \in SUBSET (1..Len(categoryLists)) :
                 /\ keep = {c \in 1..Len(categoryLists) :
                              categoryLists[c].category # name}
                 /\ Len(categoryLists') = Cardinality(keep)
                 /\ \A c \in keep :
                      categoryLists'[Cardinality({k \in keep : k <= c})]
                        = categoryLists[c]
            /\ \A id \in Ids :
                 (\A c \in Holders(categoryLists, id) :
                    categoryLists[c].category = name)
                   => ~IsActive(categoryLists', id)
            /\ deletedTasks' = deletedTasks
            /\ timers' = timers]_vars

\* a category was deleted while one of its tasks was active and another was
\* pending deletion, whose record and timer are still there, and another
\* category is left
C10_Witness ==
  /\ removedByCat # {}
  /\ categoryLists # <<>>
  /\ \E id \in DOMAIN deletedTasks :
       /\ deletedTasks[id].categoryName \notin CategoryNames(categoryLists)
       /\ deletedTasks[id].timeoutId \in DOMAIN timers

\* the same calendar day, said without toDateString
SameDay(a, b) ==
  \E k \in 0..2 : /\ k * DayMs <= a /\ a < (k + 1) * DayMs
                  /\ k * DayMs <= b /\ b < (k + 1) * DayMs

\* C2: restoreTask(id) called right after a deleteTask(id) that resolved
\* false, before anything else runs, puts the task back exactly once, in the
\* category it was taken from and with every field as it was, and leaves
\* neither a PendingDeletion record nor a live timer for the id.
C2_UndoRightAfterDelete ==
  [][\A id \in Ids :
       (/\ last.op = "deleteTask" /\ last.id = id /\ last.ret = ResolvedFalse
        /\ id \in DOMAIN deletedTasks
        /\ RestoreTask(id))
         => /\ Occurrences(categoryLists', id) = 1
            /\ \A c \in Holders(categoryLists', id) :
                 /\ categoryLists'[c].category = deletedTasks[id].categoryName
                 /\ categoryLists'[c].tasks[FindIndex(categoryLists'[c].tasks, id)]
                      = deletedTasks[id].task
            /\ id \notin DOMAIN deletedTasks'
            /\ \A h \in DOMAIN timers' : timers'[h].taskId # id]_vars

\* C3: less than 5000 ms after a deleteTask(id) that resolved false, and with
\* no restoreTask(id) since, the record of id is still there and
\* restoreTask(id) puts the task back into a list.
C3_RecordLastsTheWindow ==
  [][\A id \in Ids :
       (pendAge[id] >= 0 /\ pendAge[id] < Delay)
         => /\ id \in DOMAIN deletedTasks
            /\ RestoreTask(id) => IsActive(categoryLists', id)]_vars

\* C4: restoreTask and the expiry callback of a record exclude each other: an
\* expiry callback only ever runs for the record that stores its handle, and
\* restoreTask(id) after the expiry of id, or for an id with no record,
\* changes neither the category lists nor the pending set.
C4_RestoreOrExpiryNotBoth ==
  [][/\ \A h \in 1..MaxTimers :
          Expire(h) => /\ timers[h].taskId \in DOMAIN deletedTasks
                       /\ deletedTasks[timers[h].taskId].timeoutId = h
     /\ \A id \in Ids :
          (RestoreTask(id) /\ id \in expired /\ id \notin DOMAIN deletedTasks)
            => /\ categoryLists' = categoryLists
               /\ deletedTasks' = deletedTasks
               /\ ~IsActive(categoryLists', id)]_vars

\* C5: a second restoreTask(id) right after a restoreTask(id) changes nothing,
\* so the restored task is in its category once.
C5_RestoreTwiceIsRestoreOnce ==
  [][\A id \in Ids :
       (last.op = "restoreTask" /\ last.id = id /\ RestoreTask(id))
         => /\ categoryLists' = categoryLists
            /\ deletedTasks' = deletedTasks
            /\ Occurrences(categoryLists', id) <= 1]_vars

\* C6: deleteTask(id) resolves false exactly when id is in an active list at
\* the call, and then a record and a 5000 ms timer exist for it; otherwise it
\* resolves true and changes neither records nor timers; the value a promise
\* was resolved to never changes afterwards.
C6_OutcomeIsWhetherTaskWasActive ==
  [][/\ \A id \in Ids :
          DeleteTask(id)
            => /\ (last'.ret = ResolvedFalse) <=> IsActive(categoryLists, id)
               /\ IsActive(categoryLists, id)
                    => /\ id \in DOMAIN deletedTasks'
                       /\ nextTimer \in DOMAIN timers'
                       /\ timers'[nextTimer] = [taskId |-> id, remaining |-> Delay]
                       /\ deletedTasks'[id].timeoutId = nextTimer
               /\ ~IsActive(categoryLists, id)
                    => deletedTasks' = deletedTasks /\ timers' = timers
     /\ \A h \in 1..MaxTimers :
          resolved[h].settled => resolved'[h] = resolved[h]]_vars

\* C9: with the provider rendered, getTasksDueToday() returns the tasks that
\* are in an active list and due on the calendar day of the clock, and none
\* that is pending deletion, has expired or went with its category.
C9_DueTodayIsActiveAndDueToday ==
  batch = 0 =>
    LET due == GetTasksDueToday(categoryLists, now)
    IN /\ \A c \in 1..Len(categoryLists) :
            \A i \in 1..Len(categoryLists[c].tasks) :
              LET task == categoryLists[c].tasks[i]
              IN  (\E j \in 1..Len(due) : due[j] = task)
                    <=> SameDay(task.dueDate, now)
       /\ \A j \in 1..Len(due) :
            /\ IsActive(categoryLists, due[j].id)
            /\ due[j].id \notin DOMAIN deletedTasks
            /\ due[j].id \notin expired
            /\ due[j].id \notin removedByCat

\* the tasks of a list without their completed flag
NoFlag(tasks) ==
  [i \in 1..Len(tasks) |-> [tasks[i] EXCEPT !.completed = FALSE]]

\* C11: toggleTaskCompletion(id) on an active task flips the completed flag of
\* that task only: every other field, every other task, the order of every
\* list, the pending set and the timers stay as they were; and the updater
\* applied once more gives back the category lists from before the call.
C11_ToggleTwiceIsIdentity ==
  [][\A id \in Ids :
       (ToggleTaskCompletion(id) /\ IsActive(categoryLists, id))
         => /\ ToggleIn(categoryLists', id) = categoryLists
            /\ Len(categoryLists') = Len(categoryLists)
            /\ \A c \in 1..Len(categoryLists) :
                 /\ [categoryLists'[c] EXCEPT !.tasks = <<>>]
                      = [categoryLists[c] EXCEPT !.tasks = <<>>]
                 /\ NoFlag(categoryLists'[c].tasks)
                      = NoFlag(categoryLists[c].tasks)
                 /\ \A i \in 1..Len(categoryLists[c].tasks) :
                      LET t == categoryLists[c].tasks[i]
                      IN  categoryLists'[c].tasks[i].completed
                            = IF t.id = id THEN ~t.completed ELSE t.completed
            /\ deletedTasks' = deletedTasks
            /\ timers' = timers]_vars

\* toggleTaskCompletion was just called on a completed task, which is active
\* again and not completed, next to another task and a pending deletion
C11_Witness ==
  /\ last.op = "toggleTaskCompletion"
  /\ \E c \in Holders(categoryLists, last.id) :
       ~categoryLists[c].tasks[FindIndex(categoryLists[c].tasks, last.id)].completed
  /\ \E other \in Ids \ {last.id} :
       IsActive(categoryLists, other) \/ other \in DOMAIN deletedTasks

\* C12: addCategoryList(c) puts c at the end of the category collection and
\* leaves every category that was there (name, color, icon, tasks, position),
\* the pending set and the timers as they were, also when a category of c's
\* name is already there.
C12_AddCategoryAppends ==
  [][\A cl \in NewCategories :
       AddCategoryList(cl)
         => /\ Len(categoryLists') = Len(categoryLists) + 1
            /\ categoryLists'[Len(categoryLists')] = cl
            /\ \A c \in 1..Len(categoryLists) :
                 categoryLists'[c] = categoryLists[c]
            /\ deletedTasks' = deletedTasks
            /\ timers' = timers]_vars

\* a category was added after a category of the same name that holds a task
C12_Witness ==
  /\ Len(categoryLists) = 2
  /\ categoryLists[1].category = categoryLists[2].category
  /\ categoryLists[1].tasks # <<>>
  /\ categoryLists[2].tasks = <<>>

\* C13: every active task is in the task list of exactly one category, and
\* that category's name is the task's category field.
C13_TaskInExactlyOneCategory ==
  \A id \in Ids :
    IsActive(categoryLists, id)
      => /\ Cardinality(Holders(categoryLists, id)) = 1
         /\ \A c \in Holders(categoryLists, id) :
              \A i \in 1..Len(categoryLists[c].tasks) :
                categoryLists[c].tasks[i].id = id
                  => categoryLists[c].tasks[i].category
                       = categoryLists[c].category

\* C14: the names of the categories in the store are pairwise distinct.
C14_CategoryNamesDistinct ==
  \A c, d \in 1..Len(categoryLists) :
    categoryLists[c].category = categoryLists[d].category => c = d

\* C15: addTask(task) whose category names no category changes nothing: the
\* task is in no list and not pending afterwards; when categories of that
\* name exist, the task becomes the last element of their lists, the tasks
\* already there keep their order, and the other categories, the pending set
\* and the timers are unchanged.
C15_AddTaskAppendsOrDrops ==
  [][\A id \in Ids : \A task \in NewTasks(id) :
       AddTask(task)
         => /\ task.category \notin CategoryNames(categoryLists)
                 => /\ categoryLists' = categoryLists
                    /\ ~IsActive(categoryLists', task.id)
                    /\ task.id \notin DOMAIN deletedTasks'
            /\ Len(categoryLists') = Len(categoryLists)
            /\ \A c \in 1..Len(categoryLists) :
                 IF categoryLists[c].category = task.category
                 THEN /\ [categoryLists'[c] EXCEPT !.tasks = <<>>]
                           = [categoryLists[c] EXCEPT !.tasks = <<>>]
                      /\ Len(categoryLists'[c].tasks)
                           = Len(categoryLists[c].tasks) + 1
                      /\ categoryLists'[c].tasks[Len(categoryLists'[c].tasks)]
                           = task
                      /\ \A i \in 1..Len(categoryLists[c].tasks) :
                           categoryLists'[c].tasks[i] = categoryLists[c].tasks[i]
                 ELSE categoryLists'[c] = categoryLists[c]
            /\ deletedTasks' = deletedTasks
            /\ timers' = timers]_vars

\* the second task was appended behind the first in its category, and no
\* task was ever removed
C15_AppendedWitness ==
  /\ \E c \in 1..Len(categoryLists) :
       /\ Len(categoryLists[c].tasks) = 2
       /\ categoryLists[c].tasks[1].id = 1
       /\ categoryLists[c].tasks[2].id = 2
  /\ \A id \in Ids : delAge[id] = -1
  /\ removedByCat = {}

\* an addTask whose category named no category was dropped: the id was
\* handed out, the task is in no list though no call ever removed it, and a
\* category of the other name is there
C15_DroppedWitness ==
  /\ categoryLists # <<>>
  /\ \E id \in Ids :
       /\ id < nextId
       /\ ~IsActive(categoryLists, id)
       /\ id \notin DOMAIN deletedTasks
       /\ delAge[id] = -1
       /\ id \notin removedByCat

\* C16: toggleTaskCompletion(id) of an id that is in no active list changes
\* nothing: the category lists are as they were, and a PendingDeletion record
\* of id, in the store and as the handlers of the last render see it, keeps
\* its snapshot with the completed value the task had when it was deleted.
C16_ToggleOfInactiveIsNoOp ==
  [][\A id \in Ids :
       (ToggleTaskCompletion(id) /\ ~IsActive(categoryLists, id))
         => /\ categoryLists' = categoryLists
            /\ deletedTasks' = deletedTasks
            /\ renderedDeleted' = renderedDeleted
            /\ timers' = timers]_vars

\* toggleTaskCompletion was just called on a task that is pending deletion
\* with a completed snapshot, while another task is active
C16_Witness ==
  /\ last.op = "toggleTaskCompletion"
  /\ last.id \in DOMAIN deletedTasks
  /\ deletedTasks[last.id].task.completed
  /\ ~IsActive(categoryLists, last.id)
  /\ \E other \in Ids \ {last.id} : IsActive(categoryLists, other)

\* C17: when a PendingDeletion record exists for id, restoreTask(id) cancels
\* the record's timer, removes the record and makes the recorded snapshot the
\* last element of the task list of the category the record names, the tasks
\* already there keeping their order; no other category changes.
C17_RestoreAppendsSnapshot ==
  [][\A id \in Ids :
       (RestoreTask(id) /\ id \in DOMAIN deletedTasks)
         => LET rec == deletedTasks[id]
            IN /\ rec.timeoutId \notin DOMAIN timers'
               /\ id \notin DOMAIN deletedTasks'
               /\ Len(categoryLists') = Len(categoryLists)
               /\ \A c \in 1..Len(categoryLists) :
                    IF categoryLists[c].category = rec.categoryName
                    THEN categoryLists'[c] =
                           [categoryLists[c] EXCEPT !.tasks = Append(@, rec.task)]
                    ELSE categoryLists'[c] = categoryLists[c]]_vars

\* the handle of the live timer set for id, 0 if there is none
TimerOf(ts, id) ==
  IF \E h \in DOMAIN ts : ts[h].taskId = id
  THEN CHOOSE h \in DOMAIN ts : ts[h].taskId = id
  ELSE 0

\* restoring or expiring a leaves the record and the timer of every other
\* pending id alone, and an expiry callback runs 5000 ms after the deleteTask
\* that set its timer
OthersUntouched ==
  /\ \A a \in Ids : \A b \in (DOMAIN deletedTasks) \ {a} :
       (RestoreTask(a) \/ \E h \in DOMAIN timers :
                            timers[h].taskId = a /\ Expire(h))
         => /\ b \in DOMAIN deletedTasks'
            /\ deletedTasks'[b] = deletedTasks[b]
            /\ TimerOf(timers', b) = TimerOf(timers, b)
            /\ TimerOf(timers, b) # 0
                 => timers'[TimerOf(timers, b)] = timers[TimerOf(timers, b)]
  /\ \A h \in DOMAIN timers :
       Expire(h) => pendAge[timers[h].taskId] = Delay

\* C18: soft deletions of different ids do not interfere: restoring or
\* expiring a leaves the record and the timer of a pending b unchanged, b's
\* expiry comes 5000 ms after b's own deleteTask, and until then
\* restoreTask(b) puts b back into a list.
C18_DeletionsAreIndependent ==
  [][/\ OthersUntouched
     /\ \A b \in Ids :
          (/\ b \in DOMAIN deletedTasks
           /\ pendAge[b] >= 0 /\ pendAge[b] < Delay
           /\ \E a \in (DOMAIN deletedTasks) \ {b} : pendAge[a] >= 0
           /\ RestoreTask(b))
            => IsActive(categoryLists', b)]_vars

\* C19: whenever the home screen shows the snackbar with UNDO for a deleted
\* task, the store still holds the PendingDeletion record of that task, and a
\* tap on UNDO puts the task back into a list.
C19_UndoShownMeansRestorable ==
  [][/\ (batch = 0 /\ snackbarVisible /\ deletedTaskId # 0)
          => deletedTaskId \in DOMAIN deletedTasks
     /\ HandleUndoDelete => IsActive(categoryLists', deletedTaskId)]_vars

\* the fields handleSaveEdit hands to updateTask, merged into a task
Merged(task, edited) ==
  [task EXCEPT !.title = edited.title, !.description = edited.description,
               !.dueDate = edited.dueDate, !.priority = edited.priority,
               !.subtasks = edited.subtasks]

\* C20: updateTask(taskId, fields), as handleSaveEdit calls it, merges the
\* fields into the active task with that id, keeping its id and completed
\* flag and its place, and leaves every other task and category unchanged;
\* it changes nothing when the id is in no active list.
C20_UpdateTaskMerges ==
  [][HandleSaveEdit
       => /\ Len(categoryLists') = Len(categoryLists)
          /\ \A c \in 1..Len(categoryLists) :
               categoryLists'[c] =
                 [categoryLists[c] EXCEPT !.tasks =
                    [i \in 1..Len(@) |->
                       IF @[i].id = editingTask.id
                       THEN Merged(@[i], editingTask) ELSE @[i]]]]_vars

\* the task is gone for good: its expiry callback has run, or its category
\* was deleted while it was active, and it is neither active nor pending
Gone(id) ==
  /\ id \in expired \/ id \in removedByCat
  /\ ~IsActive(categoryLists, id)
  /\ id \notin DOMAIN deletedTasks

\* C21: a task id goes Active -> PendingDeletion -> (Active | Gone) only: it
\* gets a PendingDeletion record only by deleteTask while active, a task that
\* was created becomes active again only by restoreTask while it has a
\* record, and a task that is gone stays gone whatever is called later.
C21_LifecycleGoneIsTerminal ==
  [][\A id \in Ids :
       /\ (id \notin DOMAIN deletedTasks /\ id \in DOMAIN deletedTasks')
            => (DeleteTask(id) /\ IsActive(categoryLists, id))
       /\ (id < nextId /\ ~IsActive(categoryLists, id)
             /\ IsActive(categoryLists', id))
            => (RestoreTask(id) /\ id \in DOMAIN deletedTasks)
       /\ Gone(id) => (~IsActive(categoryLists', id)
                        /\ id \notin DOMAIN deletedTasks')]_vars

\* the position of a priority in the order '!!!', '!!', '!', none
Rank(priority) ==
  IF priority = "!!!" THEN 1 ELSE IF priority = "!!" THEN 2
  ELSE IF priority = "!" THEN 3 ELSE 4

\* C22: the list the home screen displays holds the tasks due today, each
\* once, with no completed task before an incomplete one and, among the
\* tasks of equal completion, '!!!' before '!!' before '!' before no
\* priority; computing it leaves the category lists of the store as they
\* were.
C22_DisplayedOrder ==
  [][SortEffect
       => /\ categoryLists' = categoryLists
          /\ Len(screenTasks') = Len(GetTasksDueToday(categoryLists, now))
          /\ \A t \in {GetTasksDueToday(categoryLists, now)[i] :
                         i \in 1..Len(GetTasksDueToday(categoryLists, now))} :
               \E i \in 1..Len(screenTasks') : screenTasks'[i] = t
          /\ \A i, j \in 1..Len(screenTasks') :
               i < j => /\ ~(screenTasks'[i].completed
                               /\ ~screenTasks'[j].completed)
                        /\ screenTasks'[i].completed = screenTasks'[j].completed
                             => Rank(screenTasks'[i].priority)
                                  <= Rank(screenTasks'[j].priority)]_vars

\* the screen displays three tasks in another order than the store holds
\* them: an incomplete one before a completed one, and a '!!!' before a
\* task of no priority with the same completion
C22_Witness ==
  /\ Len(screenTasks) = 3
  /\ screenTasks # categoryLists[1].tasks
  /\ screenTasks = SortTasks(GetTasksDueToday(categoryLists, now))
  /\ \E i, j \in 1..3 : /\ i < j
                        /\ ~screenTasks[i].completed
                        /\ screenTasks[j].completed
  /\ \E i, j \in 1..3 : /\ i < j
                        /\ screenTasks[i].completed = screenTasks[j].completed
                        /\ screenTasks[i].priority = "!!!"
                        /\ screenTasks[j].priority = "none"

\* C23: deleteTask(id) on an active task takes that task out of its
\* category's list at once, records a PendingDeletion whose snapshot is the
\* removed task and whose categoryName is the category it was taken from, and
\* leaves every other task, the order of the remaining tasks and every
\* category's name, color and icon as they were.
C23_DeleteRemovesAndRecords ==
  [][\A id \in Ids :
       (DeleteTask(id) /\ IsActive(categoryLists, id))
         => /\ ~IsActive(categoryLists', id)
            /\ Len(categoryLists') = Len(categoryLists)
            /\ \A c \in 1..Len(categoryLists) :
                 categoryLists'[c] =
                   [categoryLists[c] EXCEPT !.tasks = FilterOut(@, id)]
            /\ id \in DOMAIN deletedTasks'
            /\ \E c \in Holders(categoryLists, id) :
                 /\ deletedTasks'[id].categoryName = categoryLists[c].category
                 /\ deletedTasks'[id].task
                      = categoryLists[c].tasks[FindIndex(categoryLists[c].tasks, id)]
            /\ \A other \in (DOMAIN deletedTasks) \ {id} :
                 /\ other \in DOMAIN deletedTasks'
                 /\ deletedTasks'[other] = deletedTasks[other]]_vars

\* C24: every PendingDeletion record is destroyed in the end, by restoreTask
\* or by its own expiry: a record never outlives the 5000 ms after its
\* deleteTask except while its expiry callback is due, and under fair
\* scheduling a pending id stops being pending.
C24_RecordsAreDestroyed ==
  /\ [](\A id \in DOMAIN deletedTasks :
          /\ pendAge[id] >= 0
          /\ pendAge[id] >= Delay
               => /\ deletedTasks[id].timeoutId \in DOMAIN timers
                  /\ timers[deletedTasks[id].timeoutId].remaining = 0)
  /\ \A id \in Ids :
       (id \in DOMAIN deletedTasks) ~> (id \notin DOMAIN deletedTasks)

\* both records have been destroyed by their own expiry, with no restoreTask
C24_Witness ==
  /\ expired = Ids
  /\ deletedTasks = <<>>
  /\ timers = <<>>

\* C25: with addTask only ever given ids that were never used before (AddTask
\* draws nextId), no reachable state holds a task id twice among the active
\* tasks, or holds it active and in PendingDeletion at once.
C25_IdsAreUnique ==
  \A id \in Ids :
    /\ Occurrences(categoryLists, id) <= 1
    /\ ~(IsActive(categoryLists, id) /\ id \in DOMAIN deletedTasks)

\* the same with category names kept distinct: the state C25 excludes is
\* still reached, by restoreTask alone
C25_UniqueUnlessNamesRepeat ==
  (\A c, d \in 1..Len(categoryLists) :
     categoryLists[c].category = categoryLists[d].category => c = d)
    => C25_IdsAreUnique

\* what restoreTask must do to a record whose category was removed
Orphan(id) ==
  LET rec == deletedTasks[id]
  IN /\ id \notin DOMAIN deletedTasks'
     /\ rec.timeoutId \notin DOMAIN timers'
     /\ IF rec.categoryName \in CategoryNames(categoryLists)
        THEN /\ categoryLists' =
                  AppendToCategory(categoryLists, rec.categoryName, rec.task)
             /\ IsActive(categoryLists', id)
        ELSE /\ categoryLists' = categoryLists
             /\ ~IsActive(categoryLists', id)

\* C26: when deleteCategoryList has removed the category of a pending task,
\* a restoreTask(id) within the 5000 ms cancels the timer and discards the
\* record and inserts the task nowhere, so that the task is lost; if a
\* category of the same name has been added again by then, the task is
\* appended to that category instead.
C26_RestoreOfOrphan ==
  [][\A id \in Ids :
       (/\ RestoreTask(id)
        /\ id \in DOMAIN deletedTasks
        /\ id \in orphaned
        /\ pendAge[id] < Delay)
         => Orphan(id)]_vars

\* the same for a restoreTask whose closure has seen the record
C26_RestoreOfRenderedOrphan ==
  [][\A id \in Ids :
       (/\ RestoreTask(id)
        /\ id \in DOMAIN deletedTasks
        /\ id \in orphaned
        /\ pendAge[id] < Delay
        /\ id \in DOMAIN renderedDeleted
        /\ renderedDeleted[id] = deletedTasks[id])
         => Orphan(id)]_vars

\* a rendered record has been restored after its category was removed: once
\* with the category gone, once with a category of that name added again
C26_LostWitness ==
  /\ last.op = "restoreTask"
  /\ removedByCat = {}
  /\ categoryLists = <<>>
  /\ deletedTasks = <<>>
  /\ timers = <<>>
  /\ nextTimer = 2

\* the ids of the active tasks together with those of the PendingDeletion
\* records
KnownIds(lists, dt) == {id \in Ids : IsActive(lists, id)} \cup DOMAIN dt

\* C27: deleteTask, restoreTask and toggleTaskCompletion neither create nor
\* lose a task: the ids of the active tasks and of the records together are
\* the same after the call as before it; only addTask adds an id to them,
\* and only a timer's expiry and deleteCategoryList take one away.
C27_TasksAreConserved ==
  [][LET before == KnownIds(categoryLists, deletedTasks)
         after == KnownIds(categoryLists', deletedTasks')
     IN /\ (\E id \in Ids : \/ DeleteTask(id)
                             \/ RestoreTask(id)
                             \/ ToggleTaskCompletion(id))
             => after = before
        /\ ~(after \subseteq before)
             => \E task \in NewTasks(nextId) : AddTask(task)
        /\ ~(before \subseteq after)
             => \/ \E h \in 1..MaxTimers : Expire(h)
                \/ \E name \in Names : DeleteCategoryList(name)]_vars

\* the same, of calls made with no update queued and with the record, if
\* there is one, known to the closure and its category still there
C27_ConservedWhenSettled ==
  [][\A id \in Ids :
       (/\ DeleteTask(id) \/ RestoreTask(id) \/ ToggleTaskCompletion(id)
        /\ batch = 0
        /\ renderedDeleted = deletedTasks
        /\ id \in DOMAIN deletedTasks
             => deletedTasks[id].categoryName \in CategoryNames(categoryLists))
         => KnownIds(categoryLists', deletedTasks')
              = KnownIds(categoryLists, deletedTasks)]_vars

\* task a was deleted and is not the task the undo slot holds
OutOfSlot(a) ==
  /\ a \in DOMAIN deletedTasks \/ a \in expired
  /\ ~IsActive(categoryLists, a)
  /\ deletedTaskId # a

C28_ExpiredWitness ==
  /\ expired = {1}
  /\ ~IsActive(categoryLists, 1)
  /\ IsActive(categoryLists, 2)
  /\ deletedTasks = <<>>
  /\ nextTimer = 3
  /\ pendAge[2] = -1
  /\ delAge[2] = -1

\* deleteTask(id) has taken every occurrence of id out of every category
AllRemoved(id) ==
  /\ Len(categoryLists') = Len(categoryLists)
  /\ \A c \in 1..Len(categoryLists) :
       categoryLists'[c] =
         [categoryLists[c] EXCEPT !.tasks = FilterOut(@, id)]
  /\ ~IsActive(categoryLists', id)

\* the one record made is that of the last category holding id
OneSnapshot(id) ==
  LET c == Max(Holders(categoryLists, id))
  IN /\ id \in DOMAIN deletedTasks'
     /\ deletedTasks'[id].categoryName = categoryLists[c].category
     /\ \E i \in 1..Len(categoryLists[c].tasks) :
          /\ categoryLists[c].tasks[i].id = id
          /\ deletedTasks'[id].task = categoryLists[c].tasks[i]
     /\ \A o \in Ids \ {id} :
          /\ o \in DOMAIN deletedTasks' <=> o \in DOMAIN deletedTasks
          /\ o \in DOMAIN deletedTasks => deletedTasks'[o] = deletedTasks[o]
     /\ Cardinality(DOMAIN timers') = Cardinality(DOMAIN timers) + 1

\* toggleTaskCompletion(id) has flipped every occurrence of id
AllFlipped(id) ==
  /\ Len(categoryLists') = Len(categoryLists)
  /\ \A c \in 1..Len(categoryLists) :
       /\ Len(categoryLists'[c].tasks) = Len(categoryLists[c].tasks)
       /\ \A i \in 1..Len(categoryLists[c].tasks) :
            categoryLists'[c].tasks[i] =
              IF categoryLists[c].tasks[i].id = id
              THEN [categoryLists[c].tasks[i] EXCEPT !.completed = ~@]
              ELSE categoryLists[c].tasks[i]

\* C29: when an id is active in more than one place, deleteTask(id) removes
\* every occurrence from every category and stores one snapshot and one
\* categoryName, those of the last category that held it, and
\* toggleTaskCompletion(id) flips every occurrence.
C29_EveryOccurrence ==
  [][\A id \in Ids :
       Occurrences(categoryLists, id) > 1
         => /\ DeleteTask(id) => AllRemoved(id) /\ OneSnapshot(id)
            /\ ToggleTaskCompletion(id) => AllFlipped(id)]_vars

\* the same, of a deleteTask called with no update queued
C29_EveryOccurrenceEager ==
  [][\A id \in Ids :
       Occurrences(categoryLists, id) > 1
         => /\ (DeleteTask(id) /\ batch = 0)
                 => AllRemoved(id) /\ OneSnapshot(id)
            /\ DeleteTask(id) => AllRemoved(id)
            /\ ToggleTaskCompletion(id) => AllFlipped(id)]_vars

====
